---- MODULE Spec2Model ----
(***************************************************************************)
(* Sales API of BackendNodeJs: the item normaliser and the four handlers   *)
(* of controllers/sale.controller.js, the Sale schema with its             *)
(* pre('validate') hook.  The routes mount each handler behind `protect`   *)
(* and `authorize`: every request here comes from an authenticated user    *)
(* and reaches its handler, whose own role checks decide.                  *)
(*                                                                         *)
(* Money: a raw price is a number of thousandths (mills), a stored price   *)
(* or total a number of hundredths (cents).  Strings that JavaScript       *)
(* treats as falsy (undefined, null, "") are the empty string.             *)
(***************************************************************************)
EXTENDS Integers, Sequences, FiniteSets, TLC

VARIABLES sales, last, pend, log

vars == <<sales, last, pend, log>>

----------------------------------------------------------------------------
(* Bounds *)

MaxSales == 1
MaxItems == 2

----------------------------------------------------------------------------
(* Principals (models/User.js) and identifiers *)

Users == {"A1", "G1", "S1"}

RoleOf(u) == CASE u = "A1" -> "admin" [] u = "G1" -> "gerente" [] OTHER -> "vendedor"

SaleIdPool == <<"v1", "v2", "v3", "v4">>

ObjectIdStrings == Users \cup {"ghost"} \cup {SaleIdPool[i] : i \in 1..Len(SaleIdPool)}

\* Variant: every role passes.
isAdminOrManagerOrSeller(role) == role \in {"admin", "gerente", "vendedor"}

isAdminOrManager(role) == role \in {"admin", "gerente"}

\* Variant: no identifier is refused for its shape.
isValidObjectIdAny(id) == TRUE

\* mongoose.Types.ObjectId.isValid: the identifiers of the model but "bad".
isValidObjectId(id) == id \in ObjectIdStrings

----------------------------------------------------------------------------
(* Numbers as JavaScript sees them *)

Undef == [kind |-> "undefined", mills |-> 0]
Num(m) == [kind |-> "number", mills |-> m]

IsInteger(v) == v.kind = "number" /\ v.mills % 1000 = 0

\* Thousandths whose nearest double lies below the decimal value.
BelowDecimal == {15, 1005, 1015, 2675, 8575}

DECIMAL_PLACES == 2

MillsPerCent == 1000 \div (10 ^ DECIMAL_PLACES)

\* Number.prototype.toFixed(DECIMAL_PLACES) of m thousandths, in cents: the nearest
\* cent to the double's value, the larger one when the double is exactly halfway.
ToFixed(m) ==
    LET q == m \div MillsPerCent
        r == (m % MillsPerCent) * 2
    IN  IF r > MillsPerCent \/ (r = MillsPerCent /\ m \notin BelowDecimal) THEN q + 1 ELSE q

Trim(s) ==
    LET RECURSIVE dropLeft(_), dropRight(_)
        dropLeft(t) == IF t # <<>> /\ Head(t) = " " THEN dropLeft(Tail(t)) ELSE t
        dropRight(t) == IF t # <<>> /\ t[Len(t)] = " "
                        THEN dropRight(SubSeq(t, 1, Len(t) - 1)) ELSE t
    IN  dropRight(dropLeft(s))

----------------------------------------------------------------------------
(* normalizeItems *)

NoItemsError == [text |-> "La venta debe incluir al menos un producto", pos |-> 0]

\* Variant: the message names the array index itself.
PositionFromZero(index) == index

\* The position a message names for the item at (0-based) array index `index`.
Position(index) == index + 1

\* The error the map callback throws for one item, or the text "" when it throws none.
ItemError(item) ==
    IF item.product_id.kind = "undefined" THEN "no tiene product_id"
    ELSE IF ~IsInteger(item.product_id) \/ item.product_id.mills <= 0
         THEN "tiene un product_id inválido"
    ELSE IF item.name = <<>> \/ Len(Trim(item.name)) < 2 THEN "tiene un nombre inválido"
    ELSE IF ~IsInteger(item.quantity) \/ item.quantity.mills <= 0
         THEN "debe tener cantidad entera mayor a 0"
    ELSE IF item.price_at_sale.kind # "number" \/ item.price_at_sale.mills < 0
         THEN "debe tener un precio válido"
    ELSE ""

NormalizedItem(item) ==
    [product_id |-> item.product_id.mills \div 1000,
     name |-> Trim(item.name),
     price_at_sale |-> ToFixed(item.price_at_sale.mills),
     quantity |-> item.quantity.mills \div 1000]

\* items.map visits the items in array order (index 0 first); the first throw ends it.
normalizeItems(hasItems, items) ==
    LET RECURSIVE map(_, _)
        map(index, acc) ==
            IF index >= Len(items) THEN [ok |-> TRUE, items |-> acc]
            ELSE IF ItemError(items[index + 1]) # ""
                 THEN [ok |-> FALSE,
                       error |-> [text |-> ItemError(items[index + 1]), pos |-> Position(index)]]
                 ELSE map(index + 1, Append(acc, NormalizedItem(items[index + 1])))
    IN  IF ~hasItems \/ Len(items) = 0
        THEN [ok |-> FALSE, error |-> NoItemsError]
        ELSE map(0, <<>>)

----------------------------------------------------------------------------
(* The Sale schema *)

VALID_PAYMENT_METHODS == {"efectivo", "tarjeta"}
VALID_STATUS == {"completed", "cancelled"}

Msg(text) == [text |-> text, pos |-> 0]

\* The setter of price_at_sale: Number(value).toFixed(DECIMAL_PLACES) of a stored
\* two-decimal string, here a number of cents.
toDecimal128(cents) == ToFixed(cents * MillsPerCent)

RECURSIVE SumSubtotals(_)
SumSubtotals(items) ==
    IF items = <<>> THEN 0
    ELSE SumSubtotals(SubSeq(items, 1, Len(items) - 1))
         + items[Len(items)].price_at_sale * items[Len(items)].quantity

\* saleSchema.pre('validate'): the document with its total set, or the error.
preValidate(doc) ==
    IF Len(doc.items) = 0
    THEN [ok |-> FALSE, error |-> Msg("La venta debe contener al menos un producto")]
    ELSE LET total == SumSubtotals(doc.items)
         IN  IF total <= 0
             THEN [ok |-> FALSE, error |-> Msg("El total de la venta debe ser mayor a cero")]
             ELSE [ok |-> TRUE,
                   doc |-> [doc EXCEPT !.total_amount = ToFixed(total * MillsPerCent)]]

\* document.validate(): the hook, then the validators of the paths.
validate(doc) ==
    LET hooked == preValidate(doc)
    IN  IF ~hooked.ok THEN hooked
        ELSE IF doc.user_id = "" \/ doc.payment_method \notin VALID_PAYMENT_METHODS
                \/ doc.status \notin VALID_STATUS
             THEN [ok |-> FALSE, error |-> Msg("Sale validation failed")]
             ELSE hooked

\* new Sale(fields): the defaults of the schema and the setter of each price.
NewSale(id, fields) ==
    [_id |-> id,
     sale_date |-> IF fields.sale_date = "" THEN "now" ELSE fields.sale_date,
     user_id |-> fields.user_id,
     items |-> [k \in 1..Len(fields.items) |->
                  [fields.items[k] EXCEPT !.price_at_sale = toDecimal128(@)]],
     status |-> IF fields.status = "" THEN "completed" ELSE fields.status,
     payment_method |-> fields.payment_method,
     total_amount |-> 0]

SaleFields == {"_id", "sale_date", "user_id", "items", "status", "payment_method", "total_amount"}

\* The paths save() sends: those whose value differs (deepEqual, Decimal128 by its
\* string) from the value that was loaded.
ModifiedPaths(loaded, doc) == {f \in SaleFields : doc[f] # loaded[f]}

\* save() of a loaded document: $set of its modified paths on the stored document.
SaveLoaded(store, loaded, doc) ==
    [k \in 1..Len(store) |->
        IF store[k]._id = doc._id
        THEN [f \in SaleFields |->
                IF f \in ModifiedPaths(loaded, doc) THEN doc[f] ELSE store[k][f]]
        ELSE store[k]]

findById(store, id) == {store[k] : k \in {j \in 1..Len(store) : store[j]._id = id}}

\* populate('user_id'): the referenced user, or null ("") when there is none.
populate(doc) == [doc EXCEPT !.user_id = IF @ \in Users THEN @ ELSE ""]

ValidDates == {"2024-01-01"}

\* new Date(string), "Invalid Date" when getTime() is NaN.
ParseDate(s) == IF s \in ValidDates THEN s ELSE "Invalid Date"

getTime(d) == IF d = "now" THEN 2 ELSE 1

RECURSIVE SortByDateDesc(_)
SortByDateDesc(docs) ==
    IF docs = <<>> THEN <<>>
    ELSE LET newest == CHOOSE k \in 1..Len(docs) :
                          \A j \in 1..Len(docs) :
                             getTime(docs[j].sale_date) < getTime(docs[k].sale_date)
                             \/ (getTime(docs[j].sale_date) = getTime(docs[k].sale_date) /\ k <= j)
         IN  <<docs[newest]>> \o
             SortByDateDesc([j \in 1..(Len(docs) - 1) |-> IF j < newest THEN docs[j] ELSE docs[j + 1]])

----------------------------------------------------------------------------
(* controllers/sale.controller.js *)

\* A response: the status code, the message, and the sales of the body (toJSON).
Response(code, message, body) == [code |-> code, message |-> message, body |-> body]

Reply(resp, store) == [resp |-> resp, sales |-> store]

\* Variant: `if (items && items.length)`.
ItemsGivenNonEmpty(body) == body.hasItems /\ body.items # <<>>

\* `if (items)`: an array, also an empty one, is truthy.
ItemsGiven(body) == body.hasItems

createSale(store, user, body) ==
    LET normalized == normalizeItems(body.hasItems, body.items)
        parsedSaleDate == IF body.sale_date = "" THEN "" ELSE ParseDate(body.sale_date)
        saleOwner == IF body.user_id = "" THEN user ELSE body.user_id
        checked == validate(NewSale(SaleIdPool[Len(store) + 1],
                                    [sale_date |-> parsedSaleDate,
                                     user_id |-> saleOwner,
                                     items |-> normalized.items,
                                     payment_method |-> body.payment_method,
                                     status |-> body.status]))
    IN  IF ~normalized.ok THEN Reply(Response(400, normalized.error, <<>>), store)
        ELSE IF body.payment_method = ""
             THEN Reply(Response(400, Msg("El método de pago es requerido"), <<>>), store)
        ELSE IF parsedSaleDate = "Invalid Date"
             THEN Reply(Response(400, Msg("La fecha de la venta es inválida"), <<>>), store)
        ELSE IF body.user_id # "" /\ ~isAdminOrManager(RoleOf(user))
             THEN Reply(Response(403, Msg("No tienes permisos para asignar ventas a otros usuarios"),
                                 <<>>), store)
        ELSE IF body.user_id # "" /\ ~isValidObjectId(body.user_id)
             THEN Reply(Response(400, Msg("El usuario asignado es inválido"), <<>>), store)
        ELSE IF ~checked.ok THEN Reply(Response(400, checked.error, <<>>), store)
        ELSE Reply(Response(201, Msg("Venta registrada exitosamente"), <<checked.doc>>),
                   Append(store, checked.doc))

\* Variant: the `user` of the query, when given, overrides the seller's own id.
ListOwnerFilterFromQuery(user, query) ==
    IF query.user # "" THEN query.user ELSE IF RoleOf(user) = "vendedor" THEN user ELSE ""

\* The owner in the filter of getSales: the seller's own id, else the `user` of the query.
ListOwnerFilter(user, query) == IF RoleOf(user) = "vendedor" THEN user ELSE query.user

getSales(store, user, query) ==
    LET owner == ListOwnerFilter(user, query)
        Matches(doc) == /\ (query.status # "" => doc.status = query.status)
                        /\ (owner # "" => doc.user_id = owner)
        found == SelectSeq(store, Matches)
        sorted == SortByDateDesc([k \in 1..Len(found) |-> populate(found[k])])
    IN  IF RoleOf(user) # "vendedor" /\ query.user # "" /\ ~isValidObjectId(query.user)
        THEN Reply(Response(400, Msg("El parámetro de usuario es inválido"), <<>>), store)
        ELSE Reply(Response(200, Msg(""), sorted), store)

getSaleById(store, user, id) ==
    LET found == findById(store, id)
        sale == populate(CHOOSE d \in found : TRUE)
    IN  IF ~isValidObjectId(id)
        THEN Reply(Response(400, Msg("ID de venta inválido"), <<>>), store)
        ELSE IF found = {}
             THEN Reply(Response(404, Msg("Venta no encontrada"), <<>>), store)
        \* sale.user_id._id of a null user_id throws: the catch answers 500
        ELSE IF RoleOf(user) = "vendedor" /\ sale.user_id = ""
             THEN Reply(Response(500, Msg("Error al obtener la venta"), <<>>), store)
        ELSE IF RoleOf(user) = "vendedor" /\ sale.user_id # user
             THEN Reply(Response(403, Msg("No tienes permisos para consultar esta venta"), <<>>),
                        store)
        ELSE Reply(Response(200, Msg(""), <<sale>>), store)

\* Variant: a seller may update the sales they own.
updateFindOwner(store, user, id) ==
    IF ~isAdminOrManager(RoleOf(user)) /\ \A d \in findById(store, id) : d.user_id # user
    THEN [done |-> TRUE,
          resp |-> Response(403, Msg("Solo un administrador o gerente puede modificar ventas"), <<>>)]
    ELSE IF ~isValidObjectId(id)
         THEN [done |-> TRUE, resp |-> Response(400, Msg("ID de venta inválido"), <<>>)]
    ELSE IF findById(store, id) = {}
         THEN [done |-> TRUE, resp |-> Response(404, Msg("Venta no encontrada"), <<>>)]
    ELSE [done |-> FALSE, sale |-> CHOOSE d \in findById(store, id) : TRUE]

\* updateSale up to `await Sale.findById(id)`: the early response, or the document.
updateFind(store, user, id) ==
    IF ~isAdminOrManager(RoleOf(user))
    THEN [done |-> TRUE,
          resp |-> Response(403, Msg("Solo un administrador o gerente puede modificar ventas"), <<>>)]
    ELSE IF ~isValidObjectId(id)
         THEN [done |-> TRUE, resp |-> Response(400, Msg("ID de venta inválido"), <<>>)]
    ELSE IF findById(store, id) = {}
         THEN [done |-> TRUE, resp |-> Response(404, Msg("Venta no encontrada"), <<>>)]
    ELSE [done |-> FALSE, sale |-> CHOOSE d \in findById(store, id) : TRUE]

\* updateSale from the assignments to the validation of save(): the error response,
\* or the document as save() will write it.
updateApply(loaded, body) ==
    LET normalized == IF ItemsGiven(body) THEN normalizeItems(body.hasItems, body.items)
                      ELSE [ok |-> TRUE, items |-> loaded.items]
        parsedSaleDate == IF body.sale_date = "" THEN "" ELSE ParseDate(body.sale_date)
        assigned ==
            [loaded EXCEPT
               !.items = IF ItemsGiven(body)
                         THEN [k \in 1..Len(normalized.items) |->
                                 [normalized.items[k] EXCEPT !.price_at_sale = toDecimal128(@)]]
                         ELSE @,
               !.payment_method = IF body.payment_method # "" THEN body.payment_method ELSE @,
               !.status = IF body.status # "" THEN body.status ELSE @,
               !.sale_date = IF body.sale_date # "" THEN parsedSaleDate ELSE @,
               !.user_id = IF body.user_id # "" THEN body.user_id ELSE @]
        checked == validate(assigned)
    IN  IF ~normalized.ok THEN [ok |-> FALSE, resp |-> Response(400, normalized.error, <<>>)]
        ELSE IF parsedSaleDate = "Invalid Date"
             THEN [ok |-> FALSE,
                   resp |-> Response(400, Msg("La fecha de la venta es inválida"), <<>>)]
        ELSE IF body.user_id # "" /\ ~isValidObjectId(body.user_id)
             THEN [ok |-> FALSE,
                   resp |-> Response(400, Msg("El usuario asignado es inválido"), <<>>)]
        ELSE IF ~checked.ok THEN [ok |-> FALSE, resp |-> Response(400, checked.error, <<>>)]
        ELSE [ok |-> TRUE, doc |-> checked.doc,
              resp |-> Response(200, Msg("Venta actualizada exitosamente"), <<checked.doc>>)]

\* updateSale with nothing running between its findById and its save.
updateSale(store, user, id, body) ==
    LET found == updateFind(store, user, id)
        applied == updateApply(found.sale, body)
    IN  IF found.done THEN Reply(found.resp, store)
        ELSE IF ~applied.ok THEN Reply(applied.resp, store)
        ELSE Reply(applied.resp, SaveLoaded(store, found.sale, applied.doc))

----------------------------------------------------------------------------
(* Requests *)

GoodItem == [product_id |-> Num(1000), name |-> <<" ", "a", "b">>,
             price_at_sale |-> Num(1005), quantity |-> Num(2000)]

\* A price that toFixed rounds to 0.00.
FreeItem == [GoodItem EXCEPT !.price_at_sale = Num(4), !.quantity = Num(1000)]

RECURSIVE ListsOver(_, _)
ListsOver(S, n) ==
    IF n = 0 THEN {<<>>}
    ELSE LET shorter == ListsOver(S, n - 1)
         IN  shorter \cup {Append(l, x) : l \in {m \in shorter : Len(m) = n - 1}, x \in S}

\* The item lists of the payloads: none, one, two, and one whose total is zero.
PayloadItems == {<<>>, <<GoodItem>>, <<GoodItem, GoodItem>>, <<FreeItem>>}

UserIdInputs == {""} \cup Users \cup {"ghost", "bad"}

Bodies ==
    {b \in [hasItems : BOOLEAN, items : PayloadItems,
            payment_method : {"", "efectivo", "cheque"}, status : {"", "cancelled"},
            sale_date : {"", "2024-01-01", "mañana"}, user_id : UserIdInputs] :
        ~b.hasItems => b.items = <<>>}

SaleIdInputs == {SaleIdPool[i] : i \in 1..(MaxSales + 1)} \cup {"bad"}

Queries == [status : {"", "completed", "cancelled"}, user : UserIdInputs]

NoBody == [hasItems |-> FALSE, items |-> <<>>, payment_method |-> "", status |-> "",
           sale_date |-> "", user_id |-> ""]

NoQuery == [status |-> "", user |-> ""]

----------------------------------------------------------------------------
(* The server handling one request at a time *)

Idle == [op |-> "idle"]

Handled(op, user, id, query, body, out) ==
    [op |-> op, user |-> user, id |-> id, query |-> query, body |-> body,
     before |-> sales, resp |-> out.resp]

Slots == {1, 2}

NoUpdate == [stage |-> "none"]

Init ==
    /\ sales = <<>>
    /\ last = Idle
    /\ pend = [s \in Slots |-> NoUpdate]
    /\ log = <<>>

CreateSale ==
    /\ last.op = "idle"
    /\ \E user \in Users, body \in Bodies :
          LET out == createSale(sales, user, body)
          IN  /\ Len(out.sales) <= MaxSales
              /\ sales' = out.sales
              /\ last' = Handled("create", user, "", NoQuery, body, out)
    /\ UNCHANGED <<pend, log>>

GetSales ==
    /\ last.op = "idle"
    /\ \E user \in Users, query \in Queries :
          LET out == getSales(sales, user, query)
          IN  /\ sales' = out.sales
              /\ last' = Handled("list", user, "", query, NoBody, out)
    /\ UNCHANGED <<pend, log>>

GetSaleById ==
    /\ last.op = "idle"
    /\ \E user \in Users, id \in SaleIdInputs :
          LET out == getSaleById(sales, user, id)
          IN  /\ sales' = out.sales
              /\ last' = Handled("read", user, id, NoQuery, NoBody, out)
    /\ UNCHANGED <<pend, log>>

UpdateSale ==
    /\ last.op = "idle"
    /\ \E user \in Users, id \in SaleIdInputs, body \in Bodies :
          LET out == updateSale(sales, user, id, body)
          IN  /\ sales' = out.sales
              /\ last' = Handled("update", user, id, NoQuery, body, out)
    /\ UNCHANGED <<pend, log>>

\* The response leaves; the server takes the next request.
Respond ==
    /\ last.op # "idle"
    /\ last' = Idle
    /\ UNCHANGED <<sales, pend, log>>

Next == CreateSale \/ GetSales \/ GetSaleById \/ UpdateSale \/ Respond

Spec == Init /\ [][Next]_vars

----------------------------------------------------------------------------
(* normalizeItems on its own *)

RawItems ==
    [product_id : {Undef, Num(0), Num(1500), Num(1000)},
     name : {<<"a", " ">>, <<" ", "a", "b">>},
     quantity : {Num(0), Num(1500), Num(1000)},
     price_at_sale : {Undef, Num(-1000), Num(8345)}]

Normalize ==
    /\ last.op = "idle"
    /\ \E h \in BOOLEAN, items \in ListsOver(RawItems, MaxItems) :
          /\ (~h => items = <<>>)
          /\ last' = [op |-> "normalize", hasItems |-> h, items |-> items,
                      result |-> normalizeItems(h, items)]
    /\ UNCHANGED <<sales, pend, log>>

NextNorm == Normalize \/ Respond

SpecNorm == Init /\ [][NextNorm]_vars

----------------------------------------------------------------------------
(* Two updates in flight: each awaits findById, then assigns, validates and saves *)

RaceUsers == {"A1", "G1"}

\* The payload with a total_amount of the caller's, which no handler reads.
WithTotal(body, total) ==
    [f \in DOMAIN body \cup {"total_amount"} |-> IF f = "total_amount" THEN total ELSE body[f]]

RaceCreateBodies ==
    {WithTotal(b, t) : b \in {c \in Bodies : /\ c.payment_method = "efectivo" /\ c.status = ""
                                             /\ c.sale_date = "" /\ c.user_id = ""},
                       t \in {0, 99999}}

RaceBodies ==
    {WithTotal([NoBody EXCEPT !.hasItems = l # <<>>, !.items = l, !.status = st, !.user_id = u],
               IF l = <<>> THEN 0 ELSE 99999) :
        l \in {<<>>, <<FreeItem>>, <<GoodItem, GoodItem>>, <<FreeItem, GoodItem>>},
        st \in {"", "cancelled"}, u \in {"", "S1"}}

RaceCreate ==
    /\ Len(sales) < MaxSales
    /\ \E user \in RaceUsers, body \in RaceCreateBodies :
          sales' = createSale(sales, user, body).sales
    /\ UNCHANGED <<last, pend, log>>

UpdateFind(s) ==
    /\ pend[s].stage = "none"
    /\ \E user \in RaceUsers, id \in SaleIdInputs, body \in RaceBodies :
          LET found == updateFind(sales, user, id)
          IN  pend' = [pend EXCEPT ![s] =
                         IF found.done
                         THEN [stage |-> "rejected", user |-> user, id |-> id, body |-> body,
                               resp |-> found.resp]
                         ELSE [stage |-> "loaded", user |-> user, id |-> id, body |-> body,
                               loaded |-> found.sale]]
    /\ log' = Append(log, <<"find", s>>)
    /\ UNCHANGED <<sales, last>>

UpdateSave(s) ==
    /\ pend[s].stage = "loaded"
    /\ LET applied == updateApply(pend[s].loaded, pend[s].body)
       IN  IF applied.ok
           THEN /\ sales' = SaveLoaded(sales, pend[s].loaded, applied.doc)
                /\ pend' = [pend EXCEPT ![s] =
                              [stage |-> "saved", user |-> @.user, id |-> @.id, body |-> @.body,
                               loaded |-> @.loaded, doc |-> applied.doc, resp |-> applied.resp]]
           ELSE /\ sales' = sales
                /\ pend' = [pend EXCEPT ![s] =
                              [stage |-> "rejected", user |-> @.user, id |-> @.id,
                               body |-> @.body, resp |-> applied.resp]]
    /\ log' = Append(log, <<"save", s>>)
    /\ UNCHANGED last

NextRace == RaceCreate \/ (\E s \in Slots : UpdateFind(s)) \/ (\E s \in Slots : UpdateSave(s))

SpecRace == Init /\ [][NextRace]_vars

----------------------------------------------------------------------------
(* What the claims speak of *)

Stored(store, id) == \E k \in 1..Len(store) : store[k]._id = id

SaleOf(store, id) == CHOOSE d \in {store[k] : k \in 1..Len(store)} : d._id = id

Seller(user) == RoleOf(user) = "vendedor"

Malformed(id) == id = "bad"

Elevated(user) == RoleOf(user) \in {"admin", "gerente"}

\* The sum of price x quantity over the items, in cents.
CentsOf(items) ==
    LET RECURSIVE upTo(_)
        upTo(n) == IF n = 0 THEN 0
                   ELSE upTo(n - 1) + items[n].price_at_sale * items[n].quantity
    IN  upTo(Len(items))

\* An item the claims call invalid.
InvalidItem(item) ==
    \/ item.product_id.kind # "number"
    \/ item.product_id.mills % 1000 # 0 \/ item.product_id.mills < 1000
    \/ Len(Trim(item.name)) < 2
    \/ item.quantity.kind # "number"
    \/ item.quantity.mills % 1000 # 0 \/ item.quantity.mills <= 0
    \/ item.price_at_sale.kind # "number" \/ item.price_at_sale.mills < 0

\* A payload that is valid in everything but its user_id.
ValidRest(body) ==
    /\ body.hasItems /\ body.items # <<>>
    /\ \A k \in 1..Len(body.items) : ~InvalidItem(body.items[k])
    /\ \E k \in 1..Len(body.items) : body.items[k].price_at_sale.mills >= 10
    /\ body.payment_method \in {"efectivo", "tarjeta"}
    /\ body.status \in {"", "completed", "cancelled"}
    /\ body.sale_date \in {"", "2024-01-01"}

Created == last.op = "create" /\ last.resp.code = 201

NothingStored == sales = last.before

NewSaleOwner == sales[Len(sales)].user_id

AtLeastOneProduct ==
    {"La venta debe incluir al menos un producto", "La venta debe contener al menos un producto"}

----------------------------------------------------------------------------
(* C1 *)

\* C1: every stored sale has total_amount equal to the sum over its stored items of
\* price_at_sale x quantity, to two decimals, and greater than zero, whatever
\* creates and updates (accepted or rejected, with or without a total_amount in
\* the payload) were handled.
C1_TotalDerived ==
    \A k \in 1..Len(sales) :
        /\ sales[k].total_amount = CentsOf(sales[k].items)
        /\ sales[k].total_amount > 0

----------------------------------------------------------------------------
(* C2 *)

\* C2: a seller's list response, whatever the filters, and a seller's successful
\* read-one response contain no sale owned by another principal.
C2_SellerSeesOwnOnly ==
    (/\ last.op \in {"list", "read"}
     /\ Seller(last.user)
     /\ last.resp.code = 200)
    => \A k \in 1..Len(last.resp.body) :
          /\ last.resp.body[k].user_id = last.user
          /\ SaleOf(sales, last.resp.body[k]._id).user_id = last.user

\* A seller listed with a user filter naming the owner of a stored sale that is not theirs.
C2_Witness ==
    /\ last.op = "list" /\ Seller(last.user) /\ last.resp.code = 200
    /\ last.query.user # "" /\ last.query.user # last.user
    /\ \E k \in 1..Len(sales) : sales[k].user_id = last.query.user

----------------------------------------------------------------------------
(* C3 *)

----------------------------------------------------------------------------
(* C4 *)

\* C4: a create with valid items and payment method whose owner is the actor
\* (user_id omitted, or the actor's own id) succeeds for every role, and the
\* stored owner is the actor.
C4_OwnSaleAllowed ==
    (/\ last.op = "create"
     /\ last.body.user_id \in {"", last.user}
     /\ ValidRest(last.body))
    => (last.resp.code = 201 /\ NewSaleOwner = last.user)

----------------------------------------------------------------------------
(* C5 *)

\* C5 as stated: for read-one and update, for every role, a malformed id is
\* answered 400, a well-formed id of no sale 404, and 403 is answered only for a
\* well-formed id of a stored sale.
C5_Original ==
    last.op \in {"read", "update"}
    => /\ Malformed(last.id) => last.resp.code = 400
       /\ (~Malformed(last.id) /\ ~Stored(last.before, last.id)) => last.resp.code = 404
       /\ last.resp.code = 403 => (~Malformed(last.id) /\ Stored(last.before, last.id))

\* C5 amended: that order holds for read-one for every role and for update by an
\* admin or manager; an update by a seller is answered 403 whatever the id.
C5_Amended ==
    /\ (last.op = "read" \/ (last.op = "update" /\ Elevated(last.user)))
       => /\ Malformed(last.id)
             => (last.resp.code = 400 /\ last.resp.message.text = "ID de venta inválido")
          /\ (~Malformed(last.id) /\ ~Stored(last.before, last.id))
             => (last.resp.code = 404 /\ last.resp.message.text = "Venta no encontrada")
          /\ last.resp.code = 403 => (~Malformed(last.id) /\ Stored(last.before, last.id))
    /\ (last.op = "update" /\ Seller(last.user)) => last.resp.code = 403

\* A seller was refused another principal's sale, which exists.
C5_Witness ==
    /\ last.op = "read" /\ Seller(last.user) /\ last.resp.code = 403
    /\ Stored(sales, last.id)
    /\ SaleOf(sales, last.id).user_id \in Users \ {last.user}

----------------------------------------------------------------------------
(* C6 *)

\* C6: an update by a seller on a stored sale is answered 403, also when the
\* seller owns the sale, and the store is as it was.
C6_SellerUpdateForbidden ==
    (/\ last.op = "update" /\ Seller(last.user)
     /\ Stored(last.before, last.id))
    => (last.resp.code = 403 /\ sales = last.before)

\* A seller sent an otherwise valid update of their own sale.
C6_Witness ==
    /\ last.op = "update" /\ Seller(last.user)
    /\ Stored(last.before, last.id)
    /\ SaleOf(last.before, last.id).user_id = last.user
    /\ last.body.status = "cancelled"
    /\ last.resp.code = 403

----------------------------------------------------------------------------
(* C7 *)

\* C7: the owner of every stored sale is an existing principal.
C7_OwnerExists == \A k \in 1..Len(sales) : sales[k].user_id \in Users

----------------------------------------------------------------------------
(* C8 *)

----------------------------------------------------------------------------
(* C9 *)

\* C9: for a non-empty list with an invalid item, normalizeItems fails with one
\* error, which names the 1-based position of the first invalid item.
C9_FirstInvalidItem ==
    (/\ last.op = "normalize" /\ last.hasItems
     /\ \E k \in 1..Len(last.items) : InvalidItem(last.items[k]))
    => LET first == CHOOSE k \in 1..Len(last.items) :
                       /\ InvalidItem(last.items[k])
                       /\ \A j \in 1..(k - 1) : ~InvalidItem(last.items[j])
       IN  /\ ~last.result.ok
           /\ last.result.error.pos = first
           /\ last.result.error.text = ItemError(last.items[first])

\* A valid item first, then an invalid one: the error names position 2.
C9_Witness ==
    /\ last.op = "normalize" /\ Len(last.items) = 2
    /\ ~InvalidItem(last.items[1]) /\ InvalidItem(last.items[2])
    /\ ~last.result.ok /\ last.result.error.pos = 2

\* Two invalid items: the error is the first one's.
C9_WitnessTwo ==
    /\ last.op = "normalize" /\ Len(last.items) = 2
    /\ InvalidItem(last.items[1]) /\ InvalidItem(last.items[2])
    /\ ItemError(last.items[1]) # ItemError(last.items[2])
    /\ ~last.result.ok /\ last.result.error.pos = 1

----------------------------------------------------------------------------
(* C10 *)

BothSaved ==
    /\ \A s \in Slots : pend[s].stage = "saved"
    /\ pend[1].id = pend[2].id
    /\ Len(log) = 4
    /\ log[1][1] = "find" /\ log[2][1] = "find"

LastSaver == log[4][2]

FirstSaver == log[3][2]

\* C10 as stated: when both updates looked the sale up before either saved, the
\* stored sale is the document of the update that saved last, in every field.
C10_Original ==
    BothSaved => \A f \in SaleFields : SaleOf(sales, pend[1].id)[f] = pend[LastSaver].doc[f]

\* What the saves leave instead: a field the later update changed from the value it
\* read has that update's value, every other field the value the earlier save left.
C10_FieldByField ==
    BothSaved =>
       \A f \in SaleFields :
          SaleOf(sales, pend[1].id)[f] =
             IF pend[LastSaver].doc[f] # pend[LastSaver].loaded[f]
             THEN pend[LastSaver].doc[f]
             ELSE pend[FirstSaver].doc[f]

====
